---- MODULE Spec2Model ----
(***************************************************************************)
(* Model of src/middlewares/schema.ts (express-validator): checkSchema,    *)
(* which compiles a Schema into validation chains, ensureLocations,        *)
(* isValidatorOptions and the batch `run` attached to the chain array.     *)
(*                                                                         *)
(* JavaScript values are tagged records, so that truthiness, nullishness   *)
(* and Array.isArray are computed as the language computes them.           *)
(***************************************************************************)
EXTENDS Integers, Sequences, FiniteSets, TLC

(* ------------------------------------------------------------------ *)
(* JavaScript values                                                    *)
(* ------------------------------------------------------------------ *)
Undefined == [t |-> "undefined"]
Null      == [t |-> "null"]
Bool(b)   == [t |-> "boolean", v |-> b]
Num(n)    == [t |-> "number", v |-> n]
Str(s)    == [t |-> "string", v |-> s]
Arr(s)    == [t |-> "array", v |-> s]
Fn(id)    == [t |-> "function", v |-> id]
Obj(p)    == [t |-> "object", v |-> p]
True      == Bool(TRUE)
False     == Bool(FALSE)

\* Boolean(x), and the truthiness the operators &&, ?: and if use.
ToBoolean(x) ==
    CASE x.t = "undefined" -> FALSE
      [] x.t = "null"      -> FALSE
      [] x.t = "boolean"   -> x.v
      [] x.t = "number"    -> x.v # 0
      [] x.t = "string"    -> x.v # ""
      [] OTHER             -> TRUE

\* x == null (loose): undefined and null only.
IsNullish(x) == x.t \in {"undefined", "null"}

\* Array.isArray(x)
IsArray(x) == x.t = "array"

\* a ?? b
Coalesce(a, b) == IF IsNullish(a) THEN b ELSE a

\* seq.includes(x)
Includes(seq, x) == \E i \in 1..Len(seq) : seq[i] = x

\* x[p] of a truthy value: a property of an object, undefined on a primitive
\* or when the object has no such property.
Get(x, p) == IF x.t = "object" /\ p \in DOMAIN x.v THEN x.v[p] ELSE Undefined

(* ------------------------------------------------------------------ *)
(* A ParamSchema: its entries in key iteration order.                   *)
(* ------------------------------------------------------------------ *)
Keys(config) == [i \in 1..Len(config) |-> config[i].key]

\* config[key]
Prop(config, key) ==
    IF \E i \in 1..Len(config) : config[i].key = key
    THEN LET i == CHOOSE j \in 1..Len(config) : config[j].key = key
         IN  config[i].value
    ELSE Undefined

validLocations == <<Str("body"), Str("cookies"), Str("headers"), Str("params"), Str("query")>>
protectedNames == <<"errorMessage", "in">>

(* ------------------------------------------------------------------ *)
(* The chain builder (collaborator, ../chain and ./check).              *)
(* A chain records what it was built with and the calls made on it;     *)
(* each call also carries the schema key whose iteration issued it.     *)
(* ------------------------------------------------------------------ *)
ValidatorMethods == {"isInt", "isEmail"}
SanitizerMethods == {"trim", "toInt"}
ContextMethods   == {"if", "not", "withMessage", "bail", "optional"}
ChainMethods     == ValidatorMethods \cup SanitizerMethods \cup ContextMethods

\* typeof chain[method] === 'function'
IsChainFunction(method) == method \in ChainMethods

\* method in ValidatorsImpl.prototype
InValidatorsImpl(method) == method \in ValidatorMethods

\* check(field, locations, message); `threw` records a TypeError raised while
\* the chain was being built.
check(field, locations, message) ==
    [field |-> field, locations |-> locations, message |-> message,
     calls |-> <<>>, threw |-> FALSE]

\* chain[name](...args), issued while the schema key `rule` is processed;
\* calling what is not a function throws.
Call(chain, name, args, rule) ==
    IF IsChainFunction(name)
    THEN [chain EXCEPT !.calls = Append(@, [method |-> name, args |-> args, rule |-> rule])]
    ELSE [chain EXCEPT !.threw = TRUE]

(* ------------------------------------------------------------------ *)
(* ensureLocations (lines 129-138)                                      *)
(* ------------------------------------------------------------------ *)
\* Mutant: a single `in` is wrapped without dropping a missing one.
Mutant_InLocations(in) ==
    IF IsArray(in) THEN in.v ELSE <<in>>

InLocations(in) ==
    IF IsArray(in) THEN in.v ELSE SelectSeq(<<in>>, ToBoolean)

\* Mutant: the defaults are never used.
Mutant_ActualLocations(locations, defaults) == locations

ActualLocations(locations, defaults) ==
    IF Len(locations) # 0 THEN locations ELSE defaults

FilterValid(actualLocations) ==
    LET valid(location) == Includes(validLocations, location)
    IN  SelectSeq(actualLocations, valid)

ensureLocations(config, defaults) ==
    FilterValid(ActualLocations(InLocations(Prop(config, "in")), defaults))

(* ------------------------------------------------------------------ *)
(* isValidatorOptions (lines 122-127)                                   *)
(* ------------------------------------------------------------------ *)
\* Mutant: every rule with an options object is taken for a validator.
Mutant_isValidatorOptions(method, methodCfg) == methodCfg # True

isValidatorOptions(method, methodCfg) ==
    methodCfg # True /\ InValidatorsImpl(method)

(* ------------------------------------------------------------------ *)
(* checkSchema (lines 63-120)                                           *)
(* ------------------------------------------------------------------ *)
\* Mutant: `||` in place of `??`, so that falsy options count as missing.
Mutant_ResolveOptions(methodCfg) ==
    LET given   == Get(methodCfg, "options")
        options == IF methodCfg = True \/ ~ToBoolean(given) THEN Arr(<<>>) ELSE given
        wrapped == IF ~IsNullish(options) /\ ~IsArray(options)
                   THEN Arr(<<options>>)
                   ELSE options
    IN  wrapped.v

\* lines 88-91: the array that is spread into the rule method's arguments
ResolveOptions(methodCfg) ==
    LET options == IF methodCfg = True
                   THEN Arr(<<>>)
                   ELSE Coalesce(Get(methodCfg, "options"), Arr(<<>>))
        wrapped == IF ~IsNullish(options) /\ ~IsArray(options)
                   THEN Arr(<<options>>)
                   ELSE options
    IN  wrapped.v

\* lines 93-95
ApplyIf(chain, method, methodCfg) ==
    IF isValidatorOptions(method, methodCfg) /\ ToBoolean(Get(methodCfg, "if"))
    THEN Call(chain, "if", <<Get(methodCfg, "if")>>, method)
    ELSE chain

\* lines 97-99
ApplyNegated(chain, method, methodCfg) ==
    IF isValidatorOptions(method, methodCfg) /\ ToBoolean(Get(methodCfg, "negated"))
    THEN Call(chain, "not", <<>>, method)
    ELSE chain

\* line 101
ApplyMethod(chain, method, methodCfg) ==
    Call(chain, method, ResolveOptions(methodCfg), method)

\* lines 103-105
ApplyMessage(chain, method, methodCfg) ==
    IF isValidatorOptions(method, methodCfg) /\ ToBoolean(Get(methodCfg, "errorMessage"))
    THEN Call(chain, "withMessage", <<Get(methodCfg, "errorMessage")>>, method)
    ELSE chain

\* lines 107-109
ApplyBail(chain, method, methodCfg) ==
    IF isValidatorOptions(method, methodCfg) /\ ToBoolean(Get(methodCfg, "bail"))
    THEN Call(chain, "bail", <<>>, method)
    ELSE chain

\* Mutant: the rule method is called before its negation is applied.
Mutant_ApplyRuleOrder(st, method, config) ==
    IF ~IsChainFunction(method)
    THEN [st EXCEPT !.warnings = Append(@, method)]
    ELSE LET methodCfg == Prop(config, method)
             c1 == ApplyIf(st.chain, method, methodCfg)
             c2 == ApplyMethod(c1, method, methodCfg)
             c3 == ApplyNegated(c2, method, methodCfg)
             c4 == ApplyMessage(c3, method, methodCfg)
             c5 == ApplyBail(c4, method, methodCfg)
         IN  [st EXCEPT !.chain = c5]

\* Mutant: the warning is printed but the iteration does not return.
Mutant_ApplyRule(st, method, config) ==
    LET methodCfg == Prop(config, method)
        warned == IF ~IsChainFunction(method)
                  THEN [st EXCEPT !.warnings = Append(@, method)]
                  ELSE st
        c1 == ApplyIf(st.chain, method, methodCfg)
        c2 == ApplyNegated(c1, method, methodCfg)
        c3 == ApplyMethod(c2, method, methodCfg)
        c4 == ApplyMessage(c3, method, methodCfg)
        c5 == ApplyBail(c4, method, methodCfg)
    IN  [warned EXCEPT !.chain = c5]

\* lines 77-110: one iteration of forEach; st is the chain and the console
ApplyRule(st, method, config) ==
    IF ~IsChainFunction(method)
    THEN [st EXCEPT !.warnings = Append(@, method)]
    ELSE LET methodCfg == Prop(config, method)
             c1 == ApplyIf(st.chain, method, methodCfg)
             c2 == ApplyNegated(c1, method, methodCfg)
             c3 == ApplyMethod(c2, method, methodCfg)
             c4 == ApplyMessage(c3, method, methodCfg)
             c5 == ApplyBail(c4, method, methodCfg)
         IN  [st EXCEPT !.chain = c5]

\* lines 73-76: the keys that are processed
RuleKeys(config) ==
    LET keep(method) == ToBoolean(Prop(config, method)) /\ ~Includes(protectedNames, method)
    IN  SelectSeq(Keys(config), keep)

RECURSIVE ForEachRule(_, _, _)
ForEachRule(st, methods, config) ==
    IF methods = <<>> \/ st.chain.threw THEN st
    ELSE ForEachRule(ApplyRule(st, Head(methods), config), Tail(methods), config)

\* lines 69-113: the chain of one field, with the warnings printed so far
CompileField(field, config, defaults, warned) ==
    ForEachRule([chain |-> check(field, ensureLocations(config, defaults),
                                 Prop(config, "errorMessage")),
                 warnings |-> warned],
                RuleKeys(config), config)

\* Mutant: the chains are collected last field first.
RECURSIVE Mutant_MapFields(_, _, _)
Mutant_MapFields(schema, defaults, acc) ==
    IF schema = <<>> \/ acc.threw THEN acc
    ELSE LET f  == Head(schema)
             st == CompileField(f.field, f.config, defaults, acc.warnings)
         IN  Mutant_MapFields(Tail(schema), defaults,
                              [chains   |-> <<st.chain>> \o acc.chains,
                               warnings |-> st.warnings,
                               threw    |-> st.chain.threw])

\* line 69: Object.keys(schema).map(...)
RECURSIVE MapFields(_, _, _)
MapFields(schema, defaults, acc) ==
    IF schema = <<>> \/ acc.threw THEN acc
    ELSE LET f  == Head(schema)
             st == CompileField(f.field, f.config, defaults, acc.warnings)
         IN  MapFields(Tail(schema), defaults,
                       [chains   |-> Append(acc.chains, st.chain),
                        warnings |-> st.warnings,
                        threw    |-> st.chain.threw])

\* line 65: defaultLocations = validLocations
DefaultParam(defaultLocations) ==
    IF defaultLocations = Undefined THEN validLocations ELSE defaultLocations.v

checkSchema(schema, defaultLocations) ==
    MapFields(schema, DefaultParam(defaultLocations),
              [chains |-> <<>>, warnings |-> <<>>, threw |-> FALSE])

(* ------------------------------------------------------------------ *)
(* State                                                                *)
(* ------------------------------------------------------------------ *)
VARIABLES
    schema,            \* the Schema passed to checkSchema, fields in key order
    defaultLocations,  \* the second argument (Undefined when omitted)
    pc,                \* "start" before checkSchema is called, "compiled" once it
                       \* has returned, "threw" if it raised instead
    chains,            \* the array checkSchema returned
    warnings,          \* the method names console.warn was called for
    req,               \* the request of the latest run(req) call
    invoked,           \* per chain, the requests chain.run was called with
    chainRun,          \* per chain, the promise its run returned
    all,               \* the promise of Promise.all
    runPromise,        \* the promise run(req) returned
    completed          \* the chains whose run has settled, in the order they did

vars == <<schema, defaultLocations, pc, chains, warnings, req, invoked, chainRun, all,
          runPromise, completed>>

(* ------------------------------------------------------------------ *)
(* Promises                                                             *)
(* ------------------------------------------------------------------ *)
NoReq    == "none"
NoResult == [field |-> "", req |-> NoReq]
Idle     == [state |-> "idle", value |-> NoResult]
Pending  == [state |-> "pending", value |-> NoResult]

\* What chain.run(req) settles with: the chain's own result, or its own error.
ResultOf(chain, r) == [field |-> chain.field, req |-> r]

\* The state of Promise.all(promises) right after it is called.
PromiseAll(n) ==
    [state     |-> IF n = 0 THEN "fulfilled" ELSE "pending",
     values    |-> [i \in 1..n |-> NoResult],
     remaining |-> n,
     reason    |-> NoResult]

NoAll == [state |-> "idle", values |-> <<>>, remaining |-> 0, reason |-> NoResult]
NoRun == [state |-> "idle", values |-> <<>>, reason |-> NoResult]

(* ------------------------------------------------------------------ *)
(* Actions                                                              *)
(* ------------------------------------------------------------------ *)
\* Mutant: compiling a schema also starts every chain.
Mutant_CheckSchema ==
    /\ pc = "start"
    /\ LET r == checkSchema(schema, defaultLocations)
           n == IF r.threw THEN 0 ELSE Len(r.chains)
       IN  /\ chains' = IF r.threw THEN <<>> ELSE r.chains
           /\ warnings' = r.warnings
           /\ invoked' = [i \in 1..n |-> <<NoReq>>]
           /\ chainRun' = [i \in 1..n |-> Pending]
           /\ pc' = IF r.threw THEN "threw" ELSE "compiled"
    /\ UNCHANGED <<schema, defaultLocations, req, all, runPromise, completed>>

\* checkSchema(schema, defaultLocations), lines 63-120
CheckSchema ==
    /\ pc = "start"
    /\ LET r == checkSchema(schema, defaultLocations)
           n == IF r.threw THEN 0 ELSE Len(r.chains)
       IN  /\ chains' = IF r.threw THEN <<>> ELSE r.chains
           /\ warnings' = r.warnings
           /\ invoked' = [i \in 1..n |-> <<>>]
           /\ chainRun' = [i \in 1..n |-> Idle]
           /\ pc' = IF r.threw THEN "threw" ELSE "compiled"
    /\ UNCHANGED <<schema, defaultLocations, req, all, runPromise, completed>>

\* chains.map(chain => chain.run(req)), line 116
InvokeAll(inv, r) == [i \in 1..Len(inv) |-> Append(inv[i], r)]

\* run(r), lines 115-117, up to its await: every chain's run is called with r
\* and Promise.all is handed the promises. A call starts when the previous
\* one has settled.
Run(r) ==
    /\ pc = "compiled"
    /\ runPromise.state # "pending"
    /\ \A i \in 1..Len(chains) : chainRun[i].state # "pending"
    /\ req' = r
    /\ invoked' = InvokeAll([i \in 1..Len(chains) |-> <<>>], r)
    /\ chainRun' = [i \in 1..Len(chains) |-> Pending]
    /\ all' = PromiseAll(Len(chains))
    /\ runPromise' = [state |-> "pending", values |-> <<>>, reason |-> NoResult]
    /\ completed' = <<>>
    /\ UNCHANGED <<schema, defaultLocations, pc, chains, warnings>>

\* Mutant: the results are collected in the order the chains complete.
Mutant_AllOnFulfilled(a, i, v) ==
    [a EXCEPT !.values[Len(a.values) - a.remaining + 1] = v,
              !.remaining = @ - 1,
              !.state = IF a.state = "pending" /\ a.remaining = 1 THEN "fulfilled" ELSE @]

\* Promise.all's reaction to the i-th promise fulfilling with v (line 116)
AllOnFulfilled(a, i, v) ==
    [a EXCEPT !.values[i] = v,
              !.remaining = @ - 1,
              !.state = IF a.state = "pending" /\ a.remaining = 1 THEN "fulfilled" ELSE @]

\* Mutant: a failed chain is counted as done and its failure dropped.
Mutant_AllOnRejected(a, e) ==
    [a EXCEPT !.remaining = @ - 1,
              !.state = IF a.state = "pending" /\ a.remaining = 1 THEN "fulfilled" ELSE @]

\* Promise.all's reaction to a promise rejecting with e (line 116)
AllOnRejected(a, e) ==
    IF a.state = "pending" THEN [a EXCEPT !.state = "rejected", !.reason = e] ELSE a

\* The i-th chain's run completes with its result.
ChainFulfil(i) ==
    /\ chainRun[i].state = "pending"
    /\ LET v == ResultOf(chains[i], invoked[i][Len(invoked[i])])
       IN  /\ chainRun' = [chainRun EXCEPT ![i] = [state |-> "fulfilled", value |-> v]]
           /\ all' = AllOnFulfilled(all, i, v)
    /\ completed' = Append(completed, i)
    /\ UNCHANGED <<schema, defaultLocations, pc, chains, warnings, req, invoked, runPromise>>

\* The i-th chain's run fails.
ChainReject(i) ==
    /\ chainRun[i].state = "pending"
    /\ LET e == ResultOf(chains[i], invoked[i][Len(invoked[i])])
       IN  /\ chainRun' = [chainRun EXCEPT ![i] = [state |-> "rejected", value |-> e]]
           /\ all' = AllOnRejected(all, e)
    /\ completed' = Append(completed, i)
    /\ UNCHANGED <<schema, defaultLocations, pc, chains, warnings, req, invoked, runPromise>>

\* `return await Promise.all(...)`, line 116: run's promise takes the outcome
AwaitAll(a) ==
    IF a.state = "fulfilled"
    THEN [state |-> "fulfilled", values |-> a.values, reason |-> NoResult]
    ELSE [state |-> "rejected", values |-> <<>>, reason |-> a.reason]

RunSettle ==
    /\ runPromise.state = "pending"
    /\ all.state \in {"fulfilled", "rejected"}
    /\ runPromise' = AwaitAll(all)
    /\ UNCHANGED <<schema, defaultLocations, pc, chains, warnings, req, invoked, chainRun, all,
                   completed>>

(* ------------------------------------------------------------------ *)
(* Inputs                                                               *)
(* ------------------------------------------------------------------ *)
MaxFields == 2
MaxKeys   == 2
MaxLocs   == 2
MaxArgs   == 2

Requests   == {"req1", "req2"}
FieldNames == {"a", "b", "c"}

Entry(k, v) == [key |-> k, value |-> v]

SeqsUpTo(S, n) == UNION {[1..k -> S] : k \in 0..n}

Distinct(s) == \A i, j \in 1..Len(s) : i # j => s[i] # s[j]

NotStarted ==
    /\ pc = "start"
    /\ chains = <<>>
    /\ warnings = <<>>
    /\ req = NoReq
    /\ invoked = <<>>
    /\ chainRun = <<>>
    /\ all = NoAll
    /\ runPromise = NoRun
    /\ completed = <<>>

\* Locations as callers may write them: two valid ones, an unknown one and
\* the empty string.
LocValues == {Str("body"), Str("query"), Str("foo"), Str("")}
LocLists  == SeqsUpTo(LocValues, MaxLocs)
InValues  == {Undefined, Null} \cup LocValues \cup {Arr(l) : l \in LocLists}
DefaultValues == {Undefined} \cup {Arr(l) : l \in LocLists}

InConfigs == {<<>>} \cup {<<Entry("in", v)>> : v \in InValues}

\* One field whose schema has at most the key `in`; any default locations.
InitLoc ==
    /\ schema \in {<<[field |-> "a", config |-> c]>> : c \in InConfigs}
    /\ defaultLocations \in DefaultValues
    /\ NotStarted

NextCompile == CheckSchema

SpecLoc == InitLoc /\ [][NextCompile]_vars

\* Schemas of several fields: a field with locations, a general message and
\* a rule; a field whose keys are all skipped; a field with several rules.
ConfigFull ==
    <<Entry("in", Str("body")), Entry("errorMessage", Str("general")), Entry("isInt", True)>>
ConfigSkipped ==
    <<Entry("foo", True), Entry("isInt", False), Entry("errorMessage", Undefined)>>
ConfigRules ==
    <<Entry("trim", True), Entry("in", Arr(<<Str("foo"), Str("query")>>)),
      Entry("isEmail", Obj([errorMessage |-> Str("bad email"), bail |-> True]))>>

SmallConfigs == {ConfigFull, ConfigSkipped, ConfigRules}

FieldLists == {f \in SeqsUpTo(FieldNames, MaxFields) : Distinct(f)}

Schemas ==
    UNION {{[i \in 1..Len(f) |-> [field |-> f[i], config |-> c[i]]] :
              c \in [1..Len(f) -> SmallConfigs]} : f \in FieldLists}

Init ==
    /\ schema \in Schemas
    /\ defaultLocations \in {Undefined, Arr(<<Str("query"), Str("foo")>>)}
    /\ NotStarted

Next ==
    \/ CheckSchema
    \/ \E r \in Requests : Run(r)
    \/ \E i \in 1..Len(chains) : ChainFulfil(i)
    \/ \E i \in 1..Len(chains) : ChainReject(i)
    \/ RunSettle

Spec == Init /\ [][Next]_vars

(* ------------------------------------------------------------------ *)
(* Location resolution: C1, C2                                          *)
(* ------------------------------------------------------------------ *)
\* The five locations of a request, as the specification lists them.
FiveLocations == {"body", "cookies", "headers", "params", "query"}

IsValidLocation(l) == l.t = "string" /\ l.v \in FiveLocations

KeepValid(list) == SelectSeq(list, IsValidLocation)

\* The default locations in force: the caller's, or all five when omitted.
DefaultsInForce ==
    IF defaultLocations = Undefined
    THEN <<Str("body"), Str("cookies"), Str("headers"), Str("params"), Str("query")>>
    ELSE defaultLocations.v

InOf(i) == Prop(schema[i].config, "in")

\* `in` holds no location: it is missing, null or another falsy single value.
InAbsent(in) == ~IsArray(in) /\ ~ToBoolean(in)

\* The locations `in` gives, as a list.
Given(in) == IF IsArray(in) THEN in.v ELSE IF InAbsent(in) THEN <<>> ELSE <<in>>

AllInvalid(list) == \A k \in 1..Len(list) : ~IsValidLocation(list[k])

InvalidExcluded(i) ==
    \A k \in 1..Len(chains[i].locations) : IsValidLocation(chains[i].locations[k])

\* C1 as stated: a location outside the valid set is excluded from the chain's
\* resolved locations, and when every given location is invalid the chain
\* falls back to the default locations.
C1_Original ==
    pc = "compiled" =>
        \A i \in 1..Len(chains) :
            /\ InvalidExcluded(i)
            /\ (Given(InOf(i)) # <<>> /\ AllInvalid(Given(InOf(i))))
                  => chains[i].locations = KeepValid(DefaultsInForce)

\* C1 amended: a location outside the valid set is excluded from the chain's
\* resolved locations; when `in` gives a non-empty list or a truthy single
\* value and every given location is invalid, the resolved locations are
\* empty (no fallback); the chain falls back to the default locations,
\* filtered to the valid set, only when `in` gives no location at all
\* (missing, falsy, or an empty list).
C1_Amended ==
    pc = "compiled" =>
        \A i \in 1..Len(chains) :
            /\ InvalidExcluded(i)
            /\ (Given(InOf(i)) # <<>> /\ AllInvalid(Given(InOf(i))))
                  => chains[i].locations = <<>>
            /\ Given(InOf(i)) = <<>>
                  => chains[i].locations = KeepValid(DefaultsInForce)

\* Both cases of C1 in one compiled schema family: every given location is
\* invalid while the defaults hold a valid one, and the chain has no location.
C1_Witness ==
    /\ pc = "compiled"
    /\ Len(Given(InOf(1))) = 2
    /\ AllInvalid(Given(InOf(1)))
    /\ KeepValid(DefaultsInForce) # <<>>
    /\ chains[1].locations = <<>>

\* C2: the resolved locations equal the reference algorithm: `in` as a list
\* (a single value wrapped, a missing one dropped), that list when non-empty
\* and the defaults otherwise, then the entries among the five valid
\* locations in their original order; with `in` omitted they are exactly
\* the defaults filtered to the valid set. No input makes checkSchema throw.
C2_Reference ==
    pc # "start" =>
        /\ pc = "compiled"
        /\ \A i \in 1..Len(chains) :
              LET given  == Given(InOf(i))
                  chosen == IF given # <<>> THEN given ELSE DefaultsInForce
              IN  /\ chains[i].locations = KeepValid(chosen)
                  /\ ~Includes(Keys(schema[i].config), "in")
                        => chains[i].locations = KeepValid(DefaultsInForce)

\* A list mixing a valid and an invalid location was resolved, order kept.
C2_Witness ==
    /\ pc = "compiled"
    /\ IsArray(InOf(1))
    /\ Len(InOf(1).v) = 2
    /\ ~AllInvalid(InOf(1).v)
    /\ IsValidLocation(InOf(1).v[2])
    /\ ~IsValidLocation(InOf(1).v[1])
    /\ chains[1].locations = <<InOf(1).v[2]>>

(* ------------------------------------------------------------------ *)
(* Rule dispatch: C3, C4, C7                                            *)
(* ------------------------------------------------------------------ *)
RuleObj(o, i, n, e, b) ==
    Obj([options |-> o, if |-> i, negated |-> n, errorMessage |-> e, bail |-> b])

\* What a validator key may be configured with: true, false, an options
\* object with any choice of modifiers, and one whose modifiers are all falsy.
ValidatorCfgs ==
    {True, False}
    \cup {RuleObj(Arr(<<Num(1), Str("x")>>), i, n, e, b) :
            i \in {Undefined, Fn("cond")}, n \in {Undefined, True},
            e \in {Undefined, Str("msg")}, b \in {Undefined, True}}
    \cup {RuleObj(Undefined, Null, False, Str(""), False)}

\* What a sanitizer or an unknown key may be configured with.
OtherCfgs ==
    {True, False,
     RuleObj(Undefined, Undefined, Undefined, Undefined, Undefined),
     RuleObj(Num(0), Fn("cond"), True, Str("msg"), True)}

RuleEntries ==
    {Entry(k, v) : k \in {"isInt", "isEmail"}, v \in ValidatorCfgs}
    \cup {Entry(k, v) : k \in {"trim", "foo"}, v \in OtherCfgs}
    \cup {Entry("errorMessage", Str("general"))}

RuleConfigs == {c \in SeqsUpTo(RuleEntries, MaxKeys) : Distinct(Keys(c))}

\* A second field, compiled before the one under study.
CompanionField ==
    [field  |-> "b",
     config |-> <<Entry("foo", True),
                  Entry("isInt", RuleObj(Undefined, Undefined, True, Undefined, True))>>]

InitRules ==
    /\ schema \in {<<[field |-> "a", config |-> c]>> : c \in RuleConfigs}
                \cup {<<CompanionField, [field |-> "a", config |-> c]>> : c \in RuleConfigs}
    /\ defaultLocations = Undefined
    /\ NotStarted

SpecRules == InitRules /\ [][NextCompile]_vars

\* A key the dispatcher takes for a rule: not reserved, configured with a
\* truthy value (true or an options object).
IsRuleKey(config, k) == k \notin {"errorMessage", "in"} /\ ToBoolean(Prop(config, k))

\* The capability sets of the chain, as the specification names them.
Callable(k)       == k \in ChainMethods
ValidatorClass(k) == k \in ValidatorMethods

RECURSIVE Flatten(_)
Flatten(ss) == IF ss = <<>> THEN <<>> ELSE Head(ss) \o Flatten(Tail(ss))

\* The keys of field i that are unknown rules, in key order.
UnknownRules(i) ==
    LET config == schema[i].config
        unknown(k) == IsRuleKey(config, k) /\ ~Callable(k)
    IN  SelectSeq(Keys(config), unknown)

\* The schema with key k taken out of field i.
WithoutKey(i, k) ==
    LET keep(e) == e.key # k
    IN  [schema EXCEPT ![i].config = SelectSeq(@, keep)]

\* C3: for every rule key that is not a callable operation of the chain,
\* checkSchema returns without throwing, warns once for that key, queues no
\* call for it (neither the rule nor a modifier), and builds the same chains
\* as for the schema without that key.
C3_UnknownRuleSkipped ==
    pc # "start" =>
        /\ pc = "compiled"
        /\ warnings = Flatten([i \in 1..Len(schema) |-> UnknownRules(i)])
        /\ \A i \in 1..Len(schema) :
              \A j \in 1..Len(schema[i].config) :
                 LET k == schema[i].config[j].key
                 IN  (k \notin {"errorMessage", "in"} /\ ~Callable(k)) =>
                        /\ \A c \in 1..Len(chains[i].calls) :
                               /\ chains[i].calls[c].rule # k
                               /\ chains[i].calls[c].method # k
                        /\ chains = checkSchema(WithoutKey(i, k), defaultLocations).chains

\* An unknown key with every modifier set, next to a validator, was compiled.
C3_Witness ==
    /\ pc = "compiled"
    /\ Len(schema) = 2
    /\ Prop(schema[2].config, "foo") = RuleObj(Num(0), Fn("cond"), True, Str("msg"), True)
    /\ Prop(schema[2].config, "isEmail") = True
    /\ warnings = <<"foo", "foo">>
    /\ Len(chains[2].calls) = 1

\* The arguments a rule method is to be called with (C8).
ExpectedArgs(cfg) ==
    LET o == Get(cfg, "options")
    IN  IF cfg = True \/ IsNullish(o) THEN <<>>
        ELSE IF IsArray(o) THEN o.v
        ELSE <<o>>

Op(name, args, rule) == [method |-> name, args |-> args, rule |-> rule]

\* The block of calls one recognized rule is to contribute (C4).
ExpectedBlock(k, cfg) ==
    LET mods == ValidatorClass(k) /\ cfg # True
        set(p) == mods /\ ToBoolean(Get(cfg, p))
    IN  (IF set("if") THEN <<Op("if", <<Get(cfg, "if")>>, k)>> ELSE <<>>)
        \o (IF set("negated") THEN <<Op("not", <<>>, k)>> ELSE <<>>)
        \o <<Op(k, ExpectedArgs(cfg), k)>>
        \o (IF set("errorMessage")
            THEN <<Op("withMessage", <<Get(cfg, "errorMessage")>>, k)>> ELSE <<>>)
        \o (IF set("bail") THEN <<Op("bail", <<>>, k)>> ELSE <<>>)

\* The recognized rules of field i, in key order.
RecognizedRules(i) ==
    LET config == schema[i].config
        known(k) == IsRuleKey(config, k) /\ Callable(k)
    IN  SelectSeq(Keys(config), known)

ExpectedCalls(i) ==
    LET rules == RecognizedRules(i)
    IN  Flatten([r \in 1..Len(rules) |->
                   ExpectedBlock(rules[r], Prop(schema[i].config, rules[r]))])

\* C4: the calls made on a field's chain are the concatenation, in key order,
\* of one block per recognized rule, each block being if, not, the rule
\* method, withMessage, bail, with the modifiers present exactly when set.
C4_BlockOrder ==
    pc = "compiled" =>
        \A i \in 1..Len(schema) : chains[i].calls = ExpectedCalls(i)

\* Two validators, both with every modifier set, were compiled into one chain.
C4_Witness ==
    /\ pc = "compiled"
    /\ Len(schema) = 1
    /\ Keys(schema[1].config) = <<"isEmail", "isInt">>
    /\ \A k \in {"isInt", "isEmail"} :
          \A p \in {"if", "negated", "errorMessage", "bail"} :
             ToBoolean(Get(Prop(schema[1].config, k), p))
    /\ Len(chains[1].calls) = 10

\* C7: a rule whose name is not a validator method contributes exactly one
\* call, the rule method itself; no if, not, withMessage or bail is issued
\* on its account, whatever its configuration carries.
C7_SanitizerNoModifiers ==
    pc = "compiled" =>
        \A i \in 1..Len(schema) :
            \A r \in 1..Len(RecognizedRules(i)) :
                LET k == RecognizedRules(i)[r]
                    mine(c) == c.rule = k
                IN  ~ValidatorClass(k) =>
                       /\ Len(SelectSeq(chains[i].calls, mine)) = 1
                       /\ \A c \in 1..Len(chains[i].calls) :
                              chains[i].calls[c].rule = k => chains[i].calls[c].method = k

\* A sanitizer configured with if, negated, errorMessage and bail was compiled.
C7_Witness ==
    /\ pc = "compiled"
    /\ Len(schema) = 1
    /\ Prop(schema[1].config, "trim") = RuleObj(Num(0), Fn("cond"), True, Str("msg"), True)
    /\ chains[1].calls = <<Op("trim", <<Num(0)>>, "trim")>>

(* ------------------------------------------------------------------ *)
(* Argument resolution: C8                                              *)
(* ------------------------------------------------------------------ *)
ArgElems == {Num(0), Str("a")}

\* `options` as callers may write it: missing, null, falsy and truthy single
\* values, and lists.
OptionValues ==
    {Undefined, Null, Num(0), False, Str(""), Str("a"), Num(7)}
    \cup {Arr(l) : l \in SeqsUpTo(ArgElems, MaxArgs)}

ArgCfgs ==
    {True}
    \cup {RuleObj(o, Undefined, Undefined, Undefined, Undefined) : o \in OptionValues}
    \cup {RuleObj(o, Fn("cond"), True, Str("msg"), True) : o \in OptionValues}

ArgEntries == {Entry(k, v) : k \in {"isInt", "trim"}, v \in ArgCfgs}

ArgConfigs == {c \in SeqsUpTo(ArgEntries, MaxKeys) : Distinct(Keys(c))}

InitArgs ==
    /\ schema \in {<<[field |-> "a", config |-> c]>> : c \in ArgConfigs}
    /\ defaultLocations = Undefined
    /\ NotStarted

SpecArgs == InitArgs /\ [][NextCompile]_vars

\* The calls on chain i issued for rule k, and among them the rule method's.
CallsFor(i, k) ==
    LET mine(c) == c.rule = k
    IN  SelectSeq(chains[i].calls, mine)

MethodCalls(i, k) ==
    LET method(c) == c.rule = k /\ c.method = k
    IN  SelectSeq(chains[i].calls, method)

\* C8: a recognized rule's method is called once; configured with `true` it
\* gets no argument and no modifier is applied; with `options` missing it
\* gets no argument; with `options` a single non-list value, falsy ones such
\* as 0, false and "" included, it gets that value as its one argument; with
\* `options` a list it gets the list's elements, in order.
C8_Arguments ==
    pc = "compiled" =>
        \A i \in 1..Len(schema) :
            \A r \in 1..Len(RecognizedRules(i)) :
                LET k    == RecognizedRules(i)[r]
                    cfg  == Prop(schema[i].config, k)
                    o    == Get(cfg, "options")
                    args == MethodCalls(i, k)[1].args
                IN  /\ Len(MethodCalls(i, k)) = 1
                    /\ cfg = True => args = <<>> /\ Len(CallsFor(i, k)) = 1
                    /\ (cfg # True /\ o = Undefined) => args = <<>>
                    /\ (cfg # True /\ ~IsArray(o) /\ ~IsNullish(o)) => args = <<o>>
                    /\ (cfg # True /\ IsArray(o)) => args = o.v

\* One chain was built from a rule given the single falsy option 0 and a
\* rule given a two-element list.
C8_Witness ==
    /\ pc = "compiled"
    /\ Keys(schema[1].config) = <<"isInt", "trim">>
    /\ Get(Prop(schema[1].config, "isInt"), "options") = Num(0)
    /\ Get(Prop(schema[1].config, "trim"), "options") = Arr(<<Str("a"), Num(0)>>)
    /\ MethodCalls(1, "isInt")[1].args = <<Num(0)>>
    /\ MethodCalls(1, "trim")[1].args = <<Str("a"), Num(0)>>

(* ------------------------------------------------------------------ *)
(* Chain assembly and the batch run: C5, C6, C9, C10                    *)
(* ------------------------------------------------------------------ *)
SomeChainFailed == \E i \in 1..Len(chainRun) : chainRun[i].state = "rejected"

\* C5: run(req) calls every chain's run exactly once, with req, and when it
\* returns it returns one result per chain, the i-th being the i-th chain's,
\* in whatever order the chains completed.
C5_ResultsInChainOrder ==
    /\ runPromise.state # "idle" =>
          \A i \in 1..Len(chains) : invoked[i] = <<req>>
    /\ runPromise.state = "fulfilled" =>
          /\ Len(runPromise.values) = Len(schema)
          /\ \A i \in 1..Len(schema) :
                runPromise.values[i] = [field |-> schema[i].field, req |-> req]

\* run(req) returned its results although the second chain completed first.
C5_Witness ==
    /\ runPromise.state = "fulfilled"
    /\ completed = <<2, 1>>
    /\ runPromise.values[1].field = schema[1].field
    /\ runPromise.values[2].field = schema[2].field

\* C6: once a chain's run has failed, run(req) is failing with that failure:
\* it never returns a result list, carries no partial results, and no
\* chain's run is called a second time.
C6_FailurePropagates ==
    /\ \A i \in 1..Len(chains) : Len(invoked[i]) <= 1
    /\ runPromise.state = "rejected" => runPromise.values = <<>>
    /\ SomeChainFailed =>
          LET first == CHOOSE k \in 1..Len(completed) :
                          /\ chainRun[completed[k]].state = "rejected"
                          /\ \A j \in 1..(k - 1) : chainRun[completed[j]].state # "rejected"
              error == [field |-> schema[completed[first]].field, req |-> req]
          IN  /\ runPromise.state # "fulfilled"
              /\ all.state = "rejected" /\ all.reason = error
              /\ runPromise.state = "rejected" => runPromise.reason = error

\* run(req) failed after one chain had completed and another had failed.
C6_Witness ==
    /\ runPromise.state = "rejected"
    /\ Len(completed) = 2
    /\ chainRun[completed[1]].state = "fulfilled"
    /\ chainRun[completed[2]].state = "rejected"

\* C9: checkSchema returns one chain per schema key, in key order, each
\* built for its field name, its resolved locations and the field's general
\* errorMessage, also when every rule key of the field is skipped.
C9_OneChainPerField ==
    pc = "compiled" =>
        /\ Len(chains) = Len(schema)
        /\ \A i \in 1..Len(schema) :
              LET given  == Given(InOf(i))
                  chosen == IF given # <<>> THEN given ELSE DefaultsInForce
              IN  /\ chains[i].field = schema[i].field
                  /\ chains[i].locations = KeepValid(chosen)
                  /\ chains[i].message = Prop(schema[i].config, "errorMessage")

\* Two fields were compiled; every rule key of the first was skipped, and
\* the second carries a general message.
C9_Witness ==
    /\ pc = "compiled"
    /\ Len(schema) = 2
    /\ schema[1].config = ConfigSkipped
    /\ chains[1].calls = <<>>
    /\ schema[2].config = ConfigFull
    /\ chains[2].message = Str("general")
    /\ chains[2].locations = <<Str("body")>>

NothingRun ==
    /\ \A i \in 1..Len(invoked) : invoked[i] = <<>>
    /\ \A i \in 1..Len(chainRun) : chainRun[i].state = "idle"
    /\ completed = <<>>

====
